---- MODULE Spec2Model ----
(***************************************************************************)
(* Model of atlas (InES-IoT/atlas): classification of nm symbol lines by   *)
(* origin language and aggregation of their sizes per language / region.   *)
(*                                                                         *)
(* A line of nm output is a sequence of one-character strings.             *)
(***************************************************************************)
EXTENDS Integers, Sequences, FiniteSets, TLC

\* ------------------------------------------------------------------------
\* Characters
\* ------------------------------------------------------------------------
LowerChars ==
    {"a","b","c","d","e","f","g","h","i","j","k","l","m",
     "n","o","p","q","r","s","t","u","v","w","x","y","z"}

UpperChars ==
    {"A","B","C","D","E","F","G","H","I","J","K","L","M",
     "N","O","P","Q","R","S","T","U","V","W","X","Y","Z"}

DigitChars == {"0","1","2","3","4","5","6","7","8","9"}

HexChars == <<"0","1","2","3","4","5","6","7","8","9","a","b","c","d","e","f">>

\* \s of the regex
IsWs(c) == c \in {" ", "\t"}

\* [0-9a-fA-F]
IsHex(c) == c \in DigitChars \cup {"a","b","c","d","e","f","A","B","C","D","E","F"}

\* digit value used by u32::from_str_radix(_, 16)
HexVal(c) ==
    CASE c = "0" -> 0  [] c = "1" -> 1  [] c = "2" -> 2  [] c = "3" -> 3
      [] c = "4" -> 4  [] c = "5" -> 5  [] c = "6" -> 6  [] c = "7" -> 7
      [] c = "8" -> 8  [] c = "9" -> 9
      [] c \in {"a","A"} -> 10 [] c \in {"b","B"} -> 11
      [] c \in {"c","C"} -> 12 [] c \in {"d","D"} -> 13
      [] c \in {"e","E"} -> 14 [] c \in {"f","F"} -> 15

RECURSIVE from_str_radix(_, _, _)
\* value of the hexadecimal digits s[from..to]
from_str_radix(s, from, to) ==
    IF to < from THEN 0
    ELSE 16 * from_str_radix(s, from, to - 1) + HexVal(s[to])

Min(S) == CHOOSE x \in S : \A y \in S : x <= y
Max(S) == CHOOSE x \in S : \A y \in S : x >= y

\* index of the first non-whitespace character at or after i (Len+1 if none)
SkipWs(s, i) ==
    LET rest == {j \in i..Len(s) : ~IsWs(s[j])}
    IN  IF rest = {} THEN Len(s) + 1 ELSE Min(rest)

\* index of the last non-whitespace character of s (0 if none)
LastNonWs(s) ==
    LET nz == {j \in 1..Len(s) : ~IsWs(s[j])}
    IN  IF nz = {} THEN 0 ELSE Max(nz)

\* ------------------------------------------------------------------------
\* Enumerations
\* ------------------------------------------------------------------------
SymbolLangs == {"Any", "C", "Cpp", "Rust"}

ConcreteLangs == {"C", "Cpp", "Rust"}

\* SymbolTypeOfTag with the `_ =>` arm yielding Unknown
SymbolTypeOfTag_lenient(t) ==
    CASE t = "A" -> "Absolute"
      [] t \in {"B","b"} -> "BssSection"
      [] t \in {"C","c"} -> "Common"
      [] t \in {"D","d"} -> "DataSection"
      [] t \in {"G","g"} -> "Global"
      [] t = "I" -> "Indirect"
      [] t = "i" -> "IndirectFunction"
      [] t = "N" -> "Debug"
      [] t = "n" -> "ReadOnlyDataSection"
      [] t = "p" -> "StackUnwindSection"
      [] t \in {"R","r"} -> "ReadOnlyDataSection"
      [] t \in {"S","s"} -> "UninitializedOrZeroInitialized"
      [] t \in {"T","t"} -> "TextSection"
      [] t = "U" -> "Undefined"
      [] t = "u" -> "UniqueGlobal"
      [] t \in {"V","v"} -> "TaggedWeak"
      [] t \in {"W","w"} -> "Weak"
      [] t = "-" -> "Stabs"
      [] t = "?" -> "Unknown"
      [] OTHER -> "Unknown"

\* the match on the type-tag capture; "Invalid" is the `_ =>` arm
SymbolTypeOfTag(t) ==
    CASE t = "A" -> "Absolute"
      [] t \in {"B","b"} -> "BssSection"
      [] t \in {"C","c"} -> "Common"
      [] t \in {"D","d"} -> "DataSection"
      [] t \in {"G","g"} -> "Global"
      [] t = "I" -> "Indirect"
      [] t = "i" -> "IndirectFunction"
      [] t = "N" -> "Debug"
      [] t = "n" -> "ReadOnlyDataSection"
      [] t = "p" -> "StackUnwindSection"
      [] t \in {"R","r"} -> "ReadOnlyDataSection"
      [] t \in {"S","s"} -> "UninitializedOrZeroInitialized"
      [] t \in {"T","t"} -> "TextSection"
      [] t = "U" -> "Undefined"
      [] t = "u" -> "UniqueGlobal"
      [] t \in {"V","v"} -> "TaggedWeak"
      [] t \in {"W","w"} -> "Weak"
      [] t = "-" -> "Stabs"
      [] t = "?" -> "Unknown"
      [] OTHER -> "Invalid"

\* ------------------------------------------------------------------------
\* Results
\* ------------------------------------------------------------------------
Ok(v) == [ok |-> TRUE, val |-> v]
Err(k) == [ok |-> FALSE, err |-> k]

\* ------------------------------------------------------------------------
\* Parsing one line:
\*   ^\s*([0-9a-fA-F]{8})\s+([0-9a-fA-F]{8})\s+(\S)\s+(\S.*\S)\s*$
\* ------------------------------------------------------------------------
HexField(s, p) ==
    /\ p + 7 <= Len(s)
    /\ \A k \in p..(p + 7) : IsHex(s[k])
    /\ p + 8 <= Len(s)
    /\ IsWs(s[p + 8])

from_str(s) ==
    LET p1 == SkipWs(s, 1) IN
    IF ~HexField(s, p1) THEN Err("InvalidSymbol") ELSE
    LET p2 == SkipWs(s, p1 + 8) IN
    IF ~HexField(s, p2) THEN Err("InvalidSymbol") ELSE
    LET p3 == SkipWs(s, p2 + 8) IN
    IF ~(p3 + 1 <= Len(s) /\ IsWs(s[p3 + 1])) THEN Err("InvalidSymbol") ELSE
    LET p4 == SkipWs(s, p3 + 1)
        e  == LastNonWs(s)
    IN
    IF ~(p4 <= Len(s) /\ e > p4) THEN Err("InvalidSymbol") ELSE
    LET sym_type == SymbolTypeOfTag(s[p3]) IN
    IF sym_type = "Invalid" THEN Err("InvalidSymbol") ELSE
    Ok([addr     |-> from_str_radix(s, p1, p1 + 7),
        size     |-> from_str_radix(s, p2, p2 + 7),
        sym_type |-> sym_type,
        name     |-> SubSeq(s, p4, e)])

\* ------------------------------------------------------------------------
\* Symbol (combined record)
\* ------------------------------------------------------------------------
Symbol(addr, size, sym_type, mangled, demangled, lang) ==
    [addr |-> addr, size |-> size, sym_type |-> sym_type,
     mangled |-> mangled, demangled |-> demangled, lang |-> lang]

\* Symbol::from_rawsymbols_lang: parse both lines, check that they describe
\* the same entry, stamp the given language.
from_rawsymbols_lang(mangled, demangled, lang) ==
    LET m == from_str(mangled)
        d == from_str(demangled)
    IN  IF ~m.ok \/ ~d.ok THEN Err("InvalidSymbol")
        ELSE IF \/ m.val.addr # d.val.addr
                \/ m.val.size # d.val.size
                \/ m.val.sym_type # d.val.sym_type
             THEN Err("InvalidSymbol")
        ELSE Ok(Symbol(m.val.addr, m.val.size, m.val.sym_type,
                       m.val.name, d.val.name, lang))

\* Symbol::from_rawsymbols
from_rawsymbols(mangled, demangled) ==
    from_rawsymbols_lang(mangled, demangled, "Any")

\* related that also compares the address
related_same_addr(a, b) ==
    /\ a.addr = b.addr
    /\ a.mangled = b.mangled
    /\ a.demangled = b.demangled
    /\ a.sym_type = b.sym_type
    /\ a.size = b.size

\* related that takes a symbol for related to the larger ones too
related_no_larger(a, b) ==
    /\ a.mangled = b.mangled
    /\ a.demangled = b.demangled
    /\ a.sym_type = b.sym_type
    /\ a.size <= b.size

\* Symbol::related
related(a, b) ==
    /\ a.mangled = b.mangled
    /\ a.demangled = b.demangled
    /\ a.sym_type = b.sym_type
    /\ a.size = b.size

\* enum SymbolType
SymbolTypes ==
    {"Absolute", "BssSection", "Common", "DataSection", "Global",
     "IndirectFunction", "Indirect", "Debug", "ReadOnlyDataSection",
     "StackUnwindSection", "UninitializedOrZeroInitialized", "TextSection",
     "Undefined", "UniqueGlobal", "TaggedWeak", "Weak", "Stabs", "Unknown"}

\* mem_region_tested with Weak counted as Ram
mem_region_tested_weak_ram(sym_type) ==
    CASE sym_type = "BssSection" -> "Ram"
      [] sym_type = "TextSection" -> "Rom"
      [] sym_type = "ReadOnlyDataSection" -> "Rom"
      [] sym_type = "Weak" -> "Ram"
      [] sym_type = "Global" -> "Panic"
      [] OTHER -> "Untested"

\* mem_region_tested with read-only data counted as Ram
mem_region_tested_rodata_ram(sym_type) ==
    CASE sym_type = "BssSection" -> "Ram"
      [] sym_type = "TextSection" -> "Rom"
      [] sym_type = "ReadOnlyDataSection" -> "Ram"
      [] sym_type = "Weak" -> "Rom"
      [] sym_type = "Global" -> "Panic"
      [] OTHER -> "Untested"

\* SymbolType::mem_region on the kinds its tests memory_region and
\* illegal_memory_region pin down; "Panic" is the hard failure
mem_region_tested(sym_type) ==
    CASE sym_type = "BssSection" -> "Ram"
      [] sym_type = "TextSection" -> "Rom"
      [] sym_type = "ReadOnlyDataSection" -> "Rom"
      [] sym_type = "Weak" -> "Rom"
      [] sym_type = "Global" -> "Panic"
      [] OTHER -> "Untested"

\* SymbolType::mem_region; the kinds no test pins down follow the
\* documented mapping
mem_region(sym_type) ==
    IF mem_region_tested(sym_type) # "Untested" THEN mem_region_tested(sym_type)
    ELSE CASE sym_type = "TaggedWeak" -> "Rom"
           [] sym_type = "DataSection" -> "Ram"
           [] OTHER -> "Panic"

\* ------------------------------------------------------------------------
\* nm runs.  A run is what Command::output() and the checks after it see:
\*   st = "SpawnErr"  the process could not be started
\*   st = "ExitFail"  non-zero exit status
\*   st = "BadUtf8"   stdout is not UTF-8
\*   st = "Ok"        stdout split into lines
\* ------------------------------------------------------------------------
NmRun(st, lines) == [st |-> st, lines |-> lines]

\* a zip that goes on to the end of the longer listing, a line without a
\* partner being paired with itself
Zip_longest(ms, ds) ==
    [i \in 1..Max({Len(ms), Len(ds)}) |->
        <<IF i <= Len(ms) THEN ms[i] ELSE ds[i],
          IF i <= Len(ds) THEN ds[i] ELSE ms[i]>>]

\* mangled_str.lines().zip(demangled_str.lines())
Zip(ms, ds) ==
    [i \in 1..(IF Len(ms) <= Len(ds) THEN Len(ms) ELSE Len(ds)) |-> <<ms[i], ds[i]>>]

\* ------------------------------------------------------------------------
\* LangDetector
\* ------------------------------------------------------------------------
IdentStart(c) == c \in LowerChars \cup UpperChars \cup {"_"}

IdentChar(c) == c \in LowerChars \cup UpperChars \cup {"_", "."} \cup DigitChars

\* add_lib_keeps with the character class of an identifier without '.'
add_lib_keeps_no_dot(s) ==
    IF s.mangled = s.demangled
    THEN /\ Len(s.mangled) > 0
         /\ IdentStart(s.mangled[1])
         /\ \A k \in 1..Len(s.mangled) : IdentChar(s.mangled[k]) /\ s.mangled[k] # "."
    ELSE TRUE

\* the filter of add_lib on a combined symbol
add_lib_keeps(s) ==
    IF s.mangled = s.demangled
    THEN /\ Len(s.mangled) > 0
         /\ IdentStart(s.mangled[1])
         /\ \A k \in 1..Len(s.mangled) : IdentChar(s.mangled[k])
    ELSE TRUE

RECURSIVE add_lib_loop_abort(_, _, _)
\* add_lib_loop that stops at the first pair that does not combine
add_lib_loop_abort(pairs, i, syms) ==
    IF i > Len(pairs) THEN syms
    ELSE LET s == from_rawsymbols_lang(pairs[i][1], pairs[i][2], "Rust")
         IN  IF ~s.ok THEN syms
             ELSE IF add_lib_keeps(s.val)
                  THEN add_lib_loop_abort(pairs, i + 1, Append(syms, s.val))
                  ELSE add_lib_loop_abort(pairs, i + 1, syms)

RECURSIVE add_lib_loop(_, _, _)
\* the for loop of add_lib over the zipped lines, from pair i on
add_lib_loop(pairs, i, syms) ==
    IF i > Len(pairs) THEN syms
    ELSE LET s == from_rawsymbols_lang(pairs[i][1], pairs[i][2], "Rust")
         IN  IF ~s.ok THEN add_lib_loop(pairs, i + 1, syms)
             ELSE IF add_lib_keeps(s.val)
                  THEN add_lib_loop(pairs, i + 1, Append(syms, s.val))
                  ELSE add_lib_loop(pairs, i + 1, syms)

\* Error::new(kind).with(cause)
ErrWith(k, cause) == [ok |-> FALSE, err |-> k, cause |-> cause]

\* add_lib that runs nm before it opens the library file
add_lib_status_nm_first(open, mangled_out, demangled_out) ==
    IF mangled_out.st = "SpawnErr" THEN ErrWith("Io", "Spawn")
    ELSE IF mangled_out.st = "ExitFail" THEN Err("Nm")
    ELSE IF mangled_out.st = "BadUtf8" THEN ErrWith("Nm", "Utf8Error")
    ELSE IF demangled_out.st = "SpawnErr" THEN ErrWith("Io", "Spawn")
    ELSE IF demangled_out.st = "ExitFail" THEN Err("Nm")
    ELSE IF demangled_out.st = "BadUtf8" THEN ErrWith("Nm", "Utf8Error")
    ELSE IF open # "Ok" THEN ErrWith("Io", open)
    ELSE Ok("unit")

\* the early returns of add_lib before the loop
add_lib_status(open, mangled_out, demangled_out) ==
    IF open # "Ok" THEN ErrWith("Io", open)
    ELSE IF mangled_out.st = "SpawnErr" THEN ErrWith("Io", "Spawn")
    ELSE IF mangled_out.st = "ExitFail" THEN Err("Nm")
    ELSE IF mangled_out.st = "BadUtf8" THEN ErrWith("Nm", "Utf8Error")
    ELSE IF demangled_out.st = "SpawnErr" THEN ErrWith("Io", "Spawn")
    ELSE IF demangled_out.st = "ExitFail" THEN Err("Nm")
    ELSE IF demangled_out.st = "BadUtf8" THEN ErrWith("Nm", "Utf8Error")
    ELSE Ok("unit")

\* the number of times add_lib runs nm
add_lib_nm_runs(open, mangled_out, demangled_out) ==
    IF open # "Ok" THEN 0
    ELSE IF mangled_out.st # "Ok" THEN 1
    ELSE 2

\* the ParsedLibrary pushed by a successful add_lib
add_lib_parsed(lang, mangled_out, demangled_out) ==
    [lang |-> lang,
     syms |-> add_lib_loop(Zip(mangled_out.lines, demangled_out.lines), 1, <<>>)]

RECURSIVE detect_scan_last(_, _, _)
\* detect_scan that keeps scanning after a match: the last match wins
detect_scan_last(lbs, i, sym) ==
    IF i > Len(lbs) THEN 0
    ELSE LET later == detect_scan_last(lbs, i + 1, sym) IN
         IF later # 0 THEN later
         ELSE IF \E k \in 1..Len(lbs[i].syms) : related(sym, lbs[i].syms[k])
              THEN i
              ELSE 0

RECURSIVE detect_scan(_, _, _)
\* the for loop of detect over self.libs, from library i on; 0 if none matches
detect_scan(lbs, i, sym) ==
    IF i > Len(lbs) THEN 0
    ELSE IF \E k \in 1..Len(lbs[i].syms) : related(sym, lbs[i].syms[k])
         THEN i
         ELSE detect_scan(lbs, i + 1, sym)

\* detect with the two defaults exchanged
detect_defaults_swapped(lbs, dl, dml, mangled, demangled) ==
    LET r == from_rawsymbols(mangled, demangled) IN
    IF ~r.ok THEN r
    ELSE LET hit == detect_scan(lbs, 1, r.val) IN
         IF hit # 0 THEN Ok([r.val EXCEPT !.lang = lbs[hit].lang])
         ELSE IF r.val.mangled = r.val.demangled
              THEN Ok([r.val EXCEPT !.lang = dml])
              ELSE Ok([r.val EXCEPT !.lang = dl])

\* detect that applies the name heuristic before it looks at the libraries
detect_heuristic_first(lbs, dl, dml, mangled, demangled) ==
    LET r == from_rawsymbols(mangled, demangled) IN
    IF ~r.ok THEN r
    ELSE IF r.val.mangled = r.val.demangled
         THEN Ok([r.val EXCEPT !.lang = dl])
         ELSE LET hit == detect_scan(lbs, 1, r.val) IN
              IF hit # 0 THEN Ok([r.val EXCEPT !.lang = lbs[hit].lang])
              ELSE Ok([r.val EXCEPT !.lang = dml])

\* LangDetector::detect
detect(lbs, dl, dml, mangled, demangled) ==
    LET r == from_rawsymbols(mangled, demangled) IN
    IF ~r.ok THEN r
    ELSE LET hit == detect_scan(lbs, 1, r.val) IN
         IF hit # 0 THEN Ok([r.val EXCEPT !.lang = lbs[hit].lang])
         ELSE IF r.val.mangled = r.val.demangled
              THEN Ok([r.val EXCEPT !.lang = dl])
              ELSE Ok([r.val EXCEPT !.lang = dml])

\* ------------------------------------------------------------------------
\* Guesser (the heuristic mode)
\* ------------------------------------------------------------------------
\* the result of syn::parse_str::<syn::TypePath> as far as guess looks at it:
\*   k = "Err"      the name is not a type path
\*   k = "QSelfAs"  <T as Trait>::..., qself.as_token is Some
\*   k = "QSelfTy"  <T>::..., ident is the first identifier of T, or <<>> when
\*                  T is neither a path, a reference nor a pointer to one
\*   k = "Path"     a plain path, ident is its first identifier (<<>> if none)
SynPath(k, ident) == [k |-> k, ident |-> ident]

Contains(seq, x) == \E i \in 1..Len(seq) : seq[i] = x

SymbolGuess(raw, lang) ==
    [addr |-> raw.addr, size |-> raw.size, sym_type |-> raw.sym_type,
     name |-> raw.name, lang |-> lang]

\* the check of guess on the two parsed lines: TRUE when the pair is rejected
guess_rejects(m, d) ==
    /\ m.addr # d.addr
    /\ m.size # d.size
    /\ m.sym_type # d.sym_type

\* guess that asks the package list about a pair with equal names too
guess_packages_for_equal(pkgs, nomangle, mangled, demangled, syn) ==
    LET m == from_str(mangled)
        d == from_str(demangled)
    IN
    IF ~m.ok THEN Err("SymbolParseError") ELSE
    IF ~d.ok THEN Err("SymbolParseError") ELSE
    IF guess_rejects(m.val, d.val) THEN Err("SymbolParseError") ELSE
    IF syn.k = "Err" THEN Ok(SymbolGuess(d.val, "Cpp"))
    ELSE IF syn.k = "QSelfAs" THEN Ok(SymbolGuess(d.val, "Rust"))
    ELSE IF syn.ident = <<>> THEN Err("SymbolParseError")
    ELSE IF Contains(pkgs, syn.ident) \/ Contains(nomangle, m.val.name)
         THEN Ok(SymbolGuess(d.val, "Rust"))
         ELSE Ok(SymbolGuess(d.val, IF m.val.name = d.val.name THEN "C" ELSE "Cpp"))

\* Guesser::guess; syn is what the syn parser makes of the demangled name
guess(pkgs, nomangle, mangled, demangled, syn) ==
    LET m == from_str(mangled)
        d == from_str(demangled)
    IN
    IF ~m.ok THEN Err("SymbolParseError") ELSE
    IF ~d.ok THEN Err("SymbolParseError") ELSE
    IF guess_rejects(m.val, d.val) THEN Err("SymbolParseError") ELSE
    IF m.val.name = d.val.name
    THEN IF Contains(nomangle, m.val.name)
         THEN Ok(SymbolGuess(m.val, "Rust"))
         ELSE Ok(SymbolGuess(m.val, "C"))
    ELSE IF syn.k = "Err" THEN Ok(SymbolGuess(d.val, "Cpp"))
    ELSE IF syn.k = "QSelfAs" THEN Ok(SymbolGuess(d.val, "Rust"))
    ELSE IF syn.ident = <<>> THEN Err("SymbolParseError")
    ELSE IF Contains(pkgs, syn.ident)
         THEN Ok(SymbolGuess(d.val, "Rust"))
         ELSE Ok(SymbolGuess(d.val, "Cpp"))

\* the filter of Guesser::from_lib on a name that is equal in both lines
from_lib_keeps(name) ==
    /\ Len(name) > 0
    /\ IdentStart(name[1])
    /\ \A k \in 1..Len(name) : IdentChar(name[k]) /\ name[k] # "."

RECURSIVE from_lib_loop(_, _, _)
\* the for loop of Guesser::from_lib, from pair i on
from_lib_loop(pairs, i, nomangle) ==
    IF i > Len(pairs) THEN nomangle
    ELSE LET m == from_str(pairs[i][1])
             d == from_str(pairs[i][2])
         IN  IF ~m.ok \/ ~d.ok THEN from_lib_loop(pairs, i + 1, nomangle)
             ELSE IF m.val.name = d.val.name /\ from_lib_keeps(m.val.name)
                  THEN from_lib_loop(pairs, i + 1, Append(nomangle, m.val.name))
                  ELSE from_lib_loop(pairs, i + 1, nomangle)

\* the early returns of Guesser::from_lib
from_lib_status(mangled_out, demangled_out) ==
    IF mangled_out.st # "Ok" THEN Err("SymbolParseError")
    ELSE IF demangled_out.st # "Ok" THEN Err("SymbolParseError")
    ELSE Ok("unit")

\* p.replace("-", "_")
replace_dash(name) ==
    [i \in 1..Len(name) |-> IF name[i] = "-" THEN "_" ELSE name[i]]

SYSROOT_CRATES ==
    << <<"s","t","d">>, <<"c","o","r","e">>,
       <<"p","r","o","c","_","m","a","c","r","o">>,
       <<"a","l","l","o","c">>, <<"t","e","s","t">> >>

\* Guesser::set_packages
set_packages(pkgs) ==
    [i \in 1..Len(pkgs) |-> replace_dash(pkgs[i])] \o SYSROOT_CRATES

\* ------------------------------------------------------------------------
\* Atlas
\* ------------------------------------------------------------------------
\* the detector analyze builds: C for plain names, Cpp for mangled names and
\* the static Rust library
AnalyzeDefaultLang == "C"
AnalyzeDefaultMangledLang == "Cpp"
AnalyzeLibLang == "Rust"

\* the early returns of analyze on the two nm runs over the ELF file
analyze_status(mangled_out, demangled_out) ==
    IF mangled_out.st = "SpawnErr" THEN Err("Nm")
    ELSE IF mangled_out.st = "ExitFail" THEN Err("Nm")
    ELSE IF mangled_out.st = "BadUtf8" THEN Err("Nm")
    ELSE IF demangled_out.st = "SpawnErr" THEN Err("Nm")
    ELSE IF demangled_out.st = "ExitFail" THEN Err("Nm")
    ELSE IF demangled_out.st = "BadUtf8" THEN Err("Nm")
    ELSE Ok("unit")

\* position at which a stable sort by size places s in the sorted sequence
insert_by_size(sorted, s) ==
    LET k == Cardinality({j \in 1..Len(sorted) : sorted[j].size <= s.size})
    IN  SubSeq(sorted, 1, k) \o <<s>> \o SubSeq(sorted, k + 1, Len(sorted))

\* syms left in the order of the pushes
sort_by_key_size_unsorted(sy, i, sorted) == sy

RECURSIVE sort_by_key_size(_, _, _)
\* self.syms.sort_by_key(|s| s.size), a stable sort
sort_by_key_size(sy, i, sorted) ==
    IF i > Len(sy) THEN sorted
    ELSE sort_by_key_size(sy, i + 1, insert_by_size(sorted, sy[i]))

\* analyze_push that skips a failing pair without recording it
analyze_push_drop(acc, pair, detected) ==
    IF ~detected.ok
    THEN acc
    ELSE [syms |-> Append(acc.syms, detected.val), fails |-> acc.fails]

\* the body of the for loop of analyze: the match on the result of detect
analyze_push(acc, pair, detected) ==
    IF ~detected.ok
    THEN [syms |-> acc.syms, fails |-> Append(acc.fails, pair)]
    ELSE [syms |-> Append(acc.syms, detected.val), fails |-> acc.fails]

RECURSIVE analyze_loop(_, _, _, _)
\* the for loop of analyze over the zipped lines, from pair i on
analyze_loop(lbs, pairs, i, acc) ==
    IF i > Len(pairs) THEN acc
    ELSE analyze_loop(lbs, pairs, i + 1,
                      analyze_push(acc, pairs[i],
                                   detect(lbs, AnalyzeDefaultLang,
                                          AnalyzeDefaultMangledLang,
                                          pairs[i][1], pairs[i][2])))

\* what analyze does after the library is indexed: the two nm runs, the
\* loop and the sort
analyze_elf(sy, fl, st, done) ==
    IF ~st.ok
    THEN [syms |-> sy, fails |-> fl, res |-> st]
    ELSE [syms |-> sort_by_key_size(done.syms, 1, <<>>), fails |-> done.fails,
          res |-> st]

\* ------------------------------------------------------------------------
\* Reports
\* ------------------------------------------------------------------------
TotalMem(rom, ram) == [rom |-> rom, ram |-> ram]

RECURSIVE region_total(_, _, _, _, _)
\* one filter/filter/fold chain of report_lang, from symbol i on
region_total(sy, i, lang, region, acc) ==
    IF i > Len(sy) THEN Ok(acc)
    ELSE IF sy[i].lang # lang THEN region_total(sy, i + 1, lang, region, acc)
    ELSE LET r == mem_region(sy[i].sym_type) IN
         IF r = "Panic" THEN Err("Panic")
         ELSE IF r = region
              THEN region_total(sy, i + 1, lang, region, acc + sy[i].size)
              ELSE region_total(sy, i + 1, lang, region, acc)

\* report_lang with the Ram total of Cpp taken over the Rom symbols
report_lang_cpp_ram_from_rom(sy) ==
    LET c_rom    == region_total(sy, 1, "C", "Rom", 0)
        c_ram    == region_total(sy, 1, "C", "Ram", 0)
        cpp_rom  == region_total(sy, 1, "Cpp", "Rom", 0)
        cpp_ram  == region_total(sy, 1, "Cpp", "Rom", 0)
        rust_rom == region_total(sy, 1, "Rust", "Rom", 0)
        rust_ram == region_total(sy, 1, "Rust", "Ram", 0)
    IN  IF \E t \in {c_rom, c_ram, cpp_rom, cpp_ram, rust_rom, rust_ram} : ~t.ok
        THEN Err("Panic")
        ELSE Ok([c    |-> TotalMem(c_rom.val, c_ram.val),
                 cpp  |-> TotalMem(cpp_rom.val, cpp_ram.val),
                 rust |-> TotalMem(rust_rom.val, rust_ram.val)])

\* Atlas::report_lang
report_lang(sy) ==
    LET c_rom    == region_total(sy, 1, "C", "Rom", 0)
        c_ram    == region_total(sy, 1, "C", "Ram", 0)
        cpp_rom  == region_total(sy, 1, "Cpp", "Rom", 0)
        cpp_ram  == region_total(sy, 1, "Cpp", "Ram", 0)
        rust_rom == region_total(sy, 1, "Rust", "Rom", 0)
        rust_ram == region_total(sy, 1, "Rust", "Ram", 0)
    IN  IF \E t \in {c_rom, c_ram, cpp_rom, cpp_ram, rust_rom, rust_ram} : ~t.ok
        THEN Err("Panic")
        ELSE Ok([c    |-> TotalMem(c_rom.val, c_ram.val),
                 cpp  |-> TotalMem(cpp_rom.val, cpp_ram.val),
                 rust |-> TotalMem(rust_rom.val, rust_ram.val)])

\* impl Add for TotalMem
add_mem(a, b) == TotalMem(a.rom + b.rom, a.ram + b.ram)

\* LangReport::size
size(report, lang, region) ==
    LET mem == CASE lang = "C" -> report.c
                 [] lang = "Cpp" -> report.cpp
                 [] lang = "Rust" -> report.rust
                 [] lang = "Any" -> add_mem(add_mem(report.c, report.cpp), report.rust)
    IN  CASE region = "Rom" -> Ok(mem.rom)
          [] region = "Ram" -> Ok(mem.ram)
          [] region = "Both" -> Ok(mem.rom + mem.ram)
          [] OTHER -> Err("Panic")

\* the precision of an f64: the bits of its significand
F64Bits == 53

\* an f64 that is positive and finite, kind "Num", is the bits of man, the
\* first of which is 1 and stands for 2^exp; the other kinds have no bits
F64(k, exp, man) == [k |-> k, exp |-> exp, man |-> man]
F64NaN == F64("NaN", 0, <<>>)
F64Inf == F64("Inf", 0, <<>>)
F64Zero == F64("Zero", 0, <<>>)

RECURSIVE Pow2(_)
Pow2(n) == IF n = 0 THEN 1 ELSE 2 * Pow2(n - 1)

RECURSIVE ExpOf(_, _)
\* the exponent of the quotient a / b: 2^e <= a / b < 2^(e + 1)
ExpOf(a, b) ==
    IF a >= 2 * b THEN ExpOf(a, 2 * b) + 1
    ELSE IF a < b THEN ExpOf(2 * a, b) - 1
    ELSE 0

RECURSIVE div_bits(_, _, _, _)
\* n more bits of a quotient below the bits of out, by long division of the
\* remainder r by d
div_bits(r, d, n, out) ==
    IF n = 0 THEN [bits |-> out, rem |-> r]
    ELSE IF 2 * r >= d
         THEN div_bits(2 * r - d, d, n - 1, Append(out, 1))
         ELSE div_bits(2 * r, d, n - 1, Append(out, 0))

\* the bits of man plus one in the last place, for bits that are not all 1
inc_bits(man) ==
    LET j == Max({i \in 1..Len(man) : man[i] = 0})
    IN  [i \in 1..Len(man) |-> IF i < j THEN man[i] ELSE IF i = j THEN 1 ELSE 0]

\* rounding to nearest, ties to even: bits are the bits of the exact value
\* from 2^exp down, sticky tells of a remainder below them
round_bits(exp, bits, sticky) ==
    LET keep  == SubSeq(bits, 1, F64Bits)
        guard == bits[F64Bits + 1]
        below == sticky \/ \E i \in (F64Bits + 2)..Len(bits) : bits[i] = 1
    IN  IF ~(guard = 1 /\ (below \/ keep[F64Bits] = 1)) THEN F64("Num", exp, keep)
        ELSE IF \A i \in 1..F64Bits : keep[i] = 1
             THEN F64("Num", exp + 1, [i \in 1..F64Bits |-> IF i = 1 THEN 1 ELSE 0])
             ELSE F64("Num", exp, inc_bits(keep))

\* a as f64 / b as f64, for integers that an f64 holds exactly
f64_div(a, b) ==
    IF b = 0 THEN (IF a = 0 THEN F64NaN ELSE F64Inf)
    ELSE IF a = 0 THEN F64Zero
    ELSE LET e == ExpOf(a, b)
             n == IF e < 0 THEN a * Pow2(0 - e) ELSE a
             d == IF e > 0 THEN b * Pow2(e) ELSE b
             q == div_bits(n - d, d, F64Bits, <<1>>)
         IN  round_bits(e, q.bits, q.rem # 0)

RECURSIVE add_bits(_, _, _, _, _)
\* binary addition of two rows of bits of one length, from bit i up
add_bits(a, b, i, carry, out) ==
    IF i = 0 THEN [bits |-> out, carry |-> carry]
    ELSE add_bits(a, b, i - 1, (a[i] + b[i] + carry) \div 2,
                  <<(a[i] + b[i] + carry) % 2>> \o out)

\* the sum of two f64 of kind "Num", hi being the one of the larger exponent
add_num(hi, lo) ==
    LET shift == hi.exp - lo.exp
        zeros == [i \in 1..shift |-> 0]
        sum   == add_bits(hi.man \o zeros \o <<0>>, zeros \o lo.man \o <<0>>,
                          F64Bits + shift + 1, 0, <<>>)
    IN  IF sum.carry = 1
        THEN round_bits(hi.exp + 1, <<1>> \o sum.bits, FALSE)
        ELSE round_bits(hi.exp, sum.bits, FALSE)

\* x + y in f64, for x and y that are not negative
f64_add(x, y) ==
    IF x.k = "NaN" \/ y.k = "NaN" THEN F64NaN
    ELSE IF x.k = "Inf" \/ y.k = "Inf" THEN F64Inf
    ELSE IF x.k = "Zero" THEN y
    ELSE IF y.k = "Zero" THEN x
    ELSE IF x.exp >= y.exp THEN add_num(x, y) ELSE add_num(y, x)

\* size_pct whose sum is that of both regions
size_pct_of_both(report, lang, region) ==
    IF ~size(report, "Any", region).ok THEN Err("Panic")
    ELSE Ok(f64_div(100 * size(report, lang, region).val,
                    size(report, "Any", "Both").val))

\* LangReport::size_pct: 100_f64 * size / sum.  The sizes and their hundredfold
\* are integers an f64 holds exactly, so the one rounding is that of the
\* division.
size_pct(report, lang, region) ==
    IF ~size(report, "Any", region).ok THEN Err("Panic")
    ELSE Ok(f64_div(100 * size(report, lang, region).val,
                    size(report, "Any", region).val))

\* one tuple of the vec! of iter_region
region_entry(report, lang, region) ==
    [lang |-> lang, size |-> size(report, lang, region).val,
     pct |-> size_pct(report, lang, region).val]

\* insert_larger_first that places an entry before the entries of its size
insert_larger_first_before_ties(sorted, e) ==
    LET k == Cardinality({j \in 1..Len(sorted) : sorted[j].size > e.size})
    IN  SubSeq(sorted, 1, k) \o <<e>> \o SubSeq(sorted, k + 1, Len(sorted))

\* position at which the stable sort_by(|a, b| b.1.cmp(&a.1)) places e
insert_larger_first(sorted, e) ==
    LET k == Cardinality({j \in 1..Len(sorted) : sorted[j].size >= e.size})
    IN  SubSeq(sorted, 1, k) \o <<e>> \o SubSeq(sorted, k + 1, Len(sorted))

\* LangReport::iter_region, collected
iter_region(report, region) ==
    IF ~size(report, "C", region).ok THEN Err("Panic")
    ELSE Ok(insert_larger_first(
              insert_larger_first(
                insert_larger_first(<<>>, region_entry(report, "C", region)),
                region_entry(report, "Cpp", region)),
              region_entry(report, "Rust", region)))

\* a panic in the middle of an iteration, after the items of out were yielded
PanicAfter(out) == [ok |-> FALSE, err |-> "Panic", yielded |-> out]

RECURSIVE report_func_iter(_, _, _, _, _, _)
\* draining the iterator built by report_func: symbol i downwards, with
\* count items still allowed by take()
report_func_iter(sy, i, langs, mem_type, count, out) ==
    IF count = 0 \/ i < 1 THEN Ok(out)
    ELSE IF ~(Contains(langs, "Any") \/ Contains(langs, sy[i].lang))
         THEN report_func_iter(sy, i - 1, langs, mem_type, count, out)
    ELSE IF mem_type = "Both"
         THEN report_func_iter(sy, i - 1, langs, mem_type, count - 1, Append(out, sy[i]))
    ELSE LET r == mem_region(sy[i].sym_type) IN
         IF r = "Panic" THEN PanicAfter(out)
         ELSE IF r = mem_type
              THEN report_func_iter(sy, i - 1, langs, mem_type, count - 1,
                                    Append(out, sy[i]))
              ELSE report_func_iter(sy, i - 1, langs, mem_type, count, out)

\* report_func without the rev() of the iterator
report_func_no_rev(sy, langs, mem_type, max_count) ==
    report_func_iter([k \in 1..Len(sy) |-> sy[Len(sy) + 1 - k]], Len(sy), langs,
                     mem_type,
                     IF max_count = <<>> THEN Len(sy) ELSE max_count[1], <<>>)

\* Atlas::report_func followed by a full iteration of the report; max_count
\* is <<>> for None and <<n>> for Some(n).  take(usize::MAX) never cuts a
\* Vec short, so None allows as many items as there are symbols.
report_func(sy, langs, mem_type, max_count) ==
    report_func_iter(sy, Len(sy), langs, mem_type,
                     IF max_count = <<>> THEN Len(sy) ELSE max_count[1], <<>>)

\* the report built by Atlas::report_func, SymbolReport { iter }: the
\* filters, the limit, and the iterator's position, which is the next index
\* of the collection to look at and the number of items taken so far
SymbolReport(sy, langs, mem_type, max_count) ==
    [live |-> TRUE, lang |-> langs, mem_type |-> mem_type,
     max_count |-> max_count, pos |-> Len(sy), taken |-> 0]

\* no report is held
NoReport == [live |-> FALSE]

\* draining an iterator from where it stands
collect(it, sy) ==
    report_func_iter(sy, it.pos, it.lang, it.mem_type,
                     IF it.max_count = <<>> THEN it.pos
                     ELSE it.max_count[1] - it.taken, <<>>)

\* an iteration that advances the report's own iterator instead of a clone
into_iter_by_value(rep, sy) ==
    [report |-> [rep EXCEPT !.pos = 0], res |-> collect(rep, sy)]

\* IntoIterator for &SymbolReport and a full iteration: the SymbolReportIter
\* holds a clone of the report's iterator, the report keeps its own
into_iter(rep, sy) ==
    [report |-> rep, res |-> collect(rep, sy)]

\* what the terminal and the writer do to a print
PrintOutcomes == {"Ok", "TooNarrow", "WriteFails"}

\* SymbolReport::print: a row per symbol of a clone of the iterator, each
\* with its memory region; then the table is fitted to the terminal and
\* written
print(rep, sy, outcome) ==
    LET it == collect(rep, sy) IN
    IF ~it.ok THEN PanicAfter(<<>>)
    ELSE IF \E k \in 1..Len(it.val) : mem_region(it.val[k].sym_type) = "Panic"
         THEN PanicAfter(<<>>)
    ELSE IF outcome = "TooNarrow" THEN Err("TableFormat")
    ELSE IF outcome = "WriteFails" THEN Err("Io")
    ELSE Ok(it.val)

\* ------------------------------------------------------------------------
\* Inputs: lines as nm prints them
\* ------------------------------------------------------------------------
\* "%08x"
H8(n) ==
    [i \in 1..8 |->
        HexChars[((n \div (CASE i = 1 -> 268435456 [] i = 2 -> 16777216
                             [] i = 3 -> 1048576   [] i = 4 -> 65536
                             [] i = 5 -> 4096      [] i = 6 -> 256
                             [] i = 7 -> 16        [] i = 8 -> 1)) % 16) + 1]]

Line(addr, sz, tag, name) ==
    H8(addr) \o <<" ">> \o H8(sz) \o <<" ">> \o <<tag>> \o <<" ">> \o name

\* names
N_add     == <<"a","d","d">>
N_rust_ad == <<"r","_","a","d">>
N_obj     == <<"o","b","j",".","8">>
N_anon    == <<".","L","a">>
N_digit   == <<"8","x">>
N_dash    == <<"a","-","b">>
N_zn_f    == <<"_","Z","N","1","f","E">>
N_zn_g    == <<"_","Z","N","1","g","E">>
N_l_f     == <<"l",":",":","f">>
N_l_g     == <<"l",":",":","g">>
N_cpp_m   == <<"_","Z","1","h","v">>
N_cpp_d   == <<"h","(",")"," ","c">>

\* an archive-member separator line, "a.o:"
SepLine == <<"a",".","o",":">>

\* a line pair of one listing position
Pair(m, d) == <<m, d>>

Same(addr, sz, tag, name) ==
    Pair(Line(addr, sz, tag, name), Line(addr, sz, tag, name))

Mangled(addr, sz, tag, m, d) ==
    Pair(Line(addr, sz, tag, m), Line(addr, sz, tag, d))

\* the listing (mangled run, demangled run) that prints the given pairs
Listing(pairs) ==
    [m |-> NmRun("Ok", [i \in 1..Len(pairs) |-> pairs[i][1]]),
     d |-> NmRun("Ok", [i \in 1..Len(pairs) |-> pairs[i][2]])]

\* the listing with the last line of the demangled run missing
ShortDemangled(pairs) ==
    [m |-> NmRun("Ok", [i \in 1..Len(pairs) |-> pairs[i][1]]),
     d |-> NmRun("Ok", [i \in 1..(Len(pairs) - 1) |-> pairs[i][2]])]

\* an attempt to index a library: the outcome of File::open on its path and
\* the two nm runs
LibInput(open, listing) == [open |-> open, m |-> listing.m, d |-> listing.d]

\* libraries used to build detectors (addresses are relative to the member)
DetectorLibs ==
    { LibInput("Ok", Listing(<<Pair(SepLine, SepLine), Same(0, 26, "T", N_add),
                               Mangled(0, 6, "T", N_zn_f, N_l_f)>>)),
      LibInput("Ok", Listing(<<Same(0, 4, "T", N_rust_ad), Same(0, 8, "r", N_anon),
                               Mangled(0, 6, "T", N_zn_f, N_l_f)>>)),
      LibInput("Ok", Listing(<<Same(0, 32, "T", N_add), Same(0, 24, "b", N_obj)>>)),
      LibInput("NotFound", Listing(<<>>)),
      LibInput("PermissionDenied",
               [m |-> NmRun("SpawnErr", <<>>), d |-> NmRun("SpawnErr", <<>>)]),
      LibInput("NotFound",
               [m |-> NmRun("ExitFail", <<>>), d |-> NmRun("ExitFail", <<>>)]),
      LibInput("Ok",
               [m |-> NmRun("ExitFail", <<>>), d |-> NmRun("ExitFail", <<>>)]) }

\* library listings exercising every path of add_lib
LibListings ==
    { Listing(<<>>),
      Listing(<<Same(0, 26, "T", N_add), Pair(SepLine, SepLine),
                Mangled(0, 6, "T", N_zn_f, N_l_f)>>),
      Listing(<<Same(0, 26, "T", N_add), Same(0, 24, "b", N_obj),
                Same(0, 8, "r", N_anon)>>),
      Listing(<<Same(0, 4, "T", N_rust_ad), Mangled(0, 6, "T", N_zn_f, N_l_f)>>),
      Listing(<<Same(0, 2, "d", N_digit), Same(0, 2, "d", N_dash),
                Mangled(0, 6, "T", N_zn_g, N_l_f)>>),
      Listing(<<Same(0, 32, "T", N_add), Same(0, 26, "D", N_add),
                Mangled(0, 6, "T", N_zn_f, N_l_g)>>),
      Listing(<<Pair(Line(0, 26, "T", N_add), Line(4, 26, "T", N_add)),
                Mangled(0, 9, "T", N_cpp_m, N_cpp_d)>>),
      ShortDemangled(<<Same(0, 4, "T", N_rust_ad), Same(0, 26, "T", N_add)>>),
      [m |-> NmRun("SpawnErr", <<>>), d |-> NmRun("SpawnErr", <<>>)],
      [m |-> NmRun("ExitFail", <<>>), d |-> NmRun("ExitFail", <<>>)],
      [m |-> NmRun("Ok", <<Line(0, 26, "T", N_add)>>), d |-> NmRun("BadUtf8", <<>>)] }

\* outcomes of File::open on the library path
OpenOutcomes == {"Ok", "NotFound", "PermissionDenied"}

AllLibInputs == { LibInput(o, l) : o \in OpenOutcomes, l \in LibListings }

\* line pairs of the linked binary handed to detect
DetectQueries ==
    { Same(33016, 26, "T", N_add),
      Same(33244, 4, "T", N_rust_ad),
      Same(102544, 24, "b", N_obj),
      Same(102600, 8, "r", N_anon),
      Mangled(33200, 6, "T", N_zn_f, N_l_f),
      Mangled(33300, 9, "T", N_cpp_m, N_cpp_d),
      Pair(Line(33016, 26, "T", N_add), Line(33016, 28, "T", N_add)),
      Pair(SepLine, SepLine) }

\* (default_lang, default_mangled_lang) given to LangDetector::new
DefaultLangs == { <<"C", "Cpp">>, <<"Cpp", "Rust">> }

\* ELF listings handed to analyze
ElfListings ==
    { Listing(<<Same(33244, 4, "T", N_rust_ad), Mangled(102400, 6, "D", N_zn_f, N_l_f),
                Pair(SepLine, SepLine), Same(102544, 24, "b", N_obj),
                Same(33016, 26, "T", N_add)>>),
      Listing(<<Mangled(33300, 9, "T", N_cpp_m, N_cpp_d), Same(102600, 8, "r", N_anon),
                Pair(Line(33016, 26, "T", N_add), Line(33016, 28, "T", N_add)),
                Mangled(33400, 2, "d", N_zn_g, N_l_g)>>),
      Listing(<<Same(1, 4, "G", N_obj), Same(33016, 26, "T", N_add)>>),
      ShortDemangled(<<Same(33244, 4, "T", N_rust_ad), Same(33016, 26, "T", N_add)>>),
      [m |-> NmRun("SpawnErr", <<>>), d |-> NmRun("SpawnErr", <<>>)],
      [m |-> NmRun("ExitFail", <<>>), d |-> NmRun("ExitFail", <<>>)],
      [m |-> NmRun("Ok", <<Line(33016, 26, "T", N_add)>>), d |-> NmRun("BadUtf8", <<>>)] }

\* the static Rust library of an Atlas
AtlasLibs ==
    { LibInput("Ok", Listing(<<Same(0, 4, "T", N_rust_ad), Same(0, 8, "r", N_anon),
                               Mangled(0, 6, "D", N_zn_f, N_l_f)>>)),
      LibInput("Ok", ShortDemangled(<<Mangled(0, 6, "D", N_zn_f, N_l_f),
                                      Same(0, 4, "T", N_rust_ad)>>)),
      LibInput("PermissionDenied", Listing(<<>>)),
      LibInput("Ok", [m |-> NmRun("ExitFail", <<>>), d |-> NmRun("ExitFail", <<>>)]) }

\* arguments of report_func
ReportLangs == { <<"Any">>, <<"C">>, <<"Rust", "Cpp">> }
ReportRegions == {"Rom", "Ram", "Both"}
ReportMaxCounts == { <<>>, <<0>>, <<1>>, <<2>> }

\* line pairs handed to guess
GuessQueries ==
    { Same(34560, 100, "T", N_add),
      Same(34560, 100, "T", N_rust_ad),
      Mangled(33200, 6, "T", N_zn_f, N_l_f),
      Pair(Line(34560, 100, "T", N_add), Line(0, 100, "T", N_add)),
      Pair(Line(34560, 100, "T", N_add), Line(34560, 0, "T", N_add)),
      Pair(Line(34560, 100, "T", N_add), Line(34560, 100, "d", N_add)),
      Pair(Line(34560, 100, "T", N_zn_f), Line(0, 0, "?", N_l_f)),
      Pair(SepLine, Line(34560, 100, "T", N_add)) }

SynPaths ==
    { SynPath("Err", <<>>), SynPath("QSelfAs", <<>>),
      SynPath("QSelfTy", <<>>), SynPath("QSelfTy", <<"l">>),
      SynPath("Path", <<"l">>), SynPath("Path", <<"o","t">>) }

PackageLists == { << <<"l">> >>, << <<"b","-","m">>, <<"o","t">> >> }

NoMangleLists == { <<>>, <<N_rust_ad>>, <<N_obj, N_add>> }

\* symbols handed to related
RelatedSymbols ==
    { Symbol(a, sz, t, m, d, l) :
        a \in {0, 33016}, sz \in {4, 26}, t \in {"TextSection", "ReadOnlyDataSection"},
        m \in {N_add, N_zn_f}, d \in {N_add, N_l_f}, l \in {"Any", "Rust"} }

\* "%08X"
H8Upper(n) ==
    [i \in 1..8 |->
        CASE H8(n)[i] = "a" -> "A" [] H8(n)[i] = "b" -> "B" [] H8(n)[i] = "c" -> "C"
          [] H8(n)[i] = "d" -> "D" [] H8(n)[i] = "e" -> "E" [] H8(n)[i] = "f" -> "F"
          [] OTHER -> H8(n)[i]]

\* whitespace before the line, between its fields and after it
Layouts ==
    { [lead |-> <<>>, sep |-> <<" ">>, trail |-> <<>>],
      [lead |-> <<" ", " ">>, sep |-> <<" ", "\t", " ">>, trail |-> <<" ">>],
      [lead |-> <<>>, sep |-> <<" ", " ">>, trail |-> <<"\t">>] }

ParseAddrs == {0, 2147462093}
ParseSizes == {0, 26}
ParseTags == {"T", "b", "?"}
ParseNames == {N_add, <<"s">>, N_cpp_d}

\* a line written out from its fields
FieldLine(lay, upper, addr, sz, tag, name) ==
    lay.lead \o (IF upper THEN H8Upper(addr) ELSE H8(addr)) \o lay.sep
             \o (IF upper THEN H8Upper(sz) ELSE H8(sz)) \o lay.sep
             \o <<tag>> \o lay.sep \o name \o lay.trail

\* lines with their fields; defect is "none"
FieldLines ==
    { [line |-> FieldLine(lay, upper, addr, sz, tag, name), defect |-> "none",
       addr |-> addr, size |-> sz, tag |-> tag, name |-> name] :
        lay \in Layouts, upper \in BOOLEAN, addr \in ParseAddrs,
        sz \in ParseSizes, tag \in ParseTags, name \in ParseNames }

Defect(line, defect) == [line |-> line, defect |-> defect]

\* lines that are not symbols, with what is wrong with them
DefectLines ==
    { Defect(<<>>, "empty"),
      Defect(<<" ", " ", " ">>, "whitespace"),
      Defect(<<"0","0","0","K","8","7","0","0">> \o <<" ">> \o H8(100)
             \o <<" ", "T", " ">> \o N_add, "addr"),
      Defect(<<"0","0","0","K","0","8","7","0","0">> \o <<" ">> \o H8(100)
             \o <<" ", "T", " ">> \o N_add, "addr"),
      Defect(<<"0","0","0","8","7","0","0">> \o <<" ">> \o H8(100)
             \o <<" ", "T", " ">> \o N_add, "addr"),
      Defect(H8(34560) \o <<" ">> \o <<"m","0","0","0","0","0","6","4">>
             \o <<" ", "T", " ">> \o N_add, "size"),
      Defect(H8(34560) \o <<" ">> \o <<"0","0","0","0","0","0","0","6","4">>
             \o <<" ", "T", " ">> \o N_add, "size"),
      Defect(H8(34560) \o <<" ">> \o H8(100) \o <<" ", "X", " ">> \o N_add, "tag"),
      Defect(H8(34560) \o <<" ">> \o H8(100) \o <<" ", "1", " ">> \o N_add, "tag"),
      Defect(H8(34560) \o <<" ">> \o H8(100) \o <<" ", "T", "t", " ">> \o N_add,
             "long_tag"),
      Defect(H8(34560) \o <<" ">> \o H8(100) \o <<" ", "T">>, "no_name"),
      Defect(H8(34560) \o <<" ">> \o H8(100) \o <<" ", "T", " ", " ">>, "no_name") }

\* memory totals of one language in a report
TotalMems == {TotalMem(0, 0), TotalMem(10, 15), TotalMem(40, 10), TotalMem(10, 0)}

\* reports handed to the functions of LangReport
LangReports ==
    {[c |-> c, cpp |-> cpp, rust |-> rust] :
        c \in TotalMems, cpp \in TotalMems, rust \in TotalMems}

MemoryRegions == {"Unknown", "Rom", "Ram", "Both"}

\* the symbols the others are compared with
RelatedBases ==
    { Symbol(0, 26, "TextSection", N_add, N_add, "Any"),
      Symbol(33016, 4, "ReadOnlyDataSection", N_zn_f, N_l_f, "Rust") }

\* number of libraries of one detector
MaxLibs == 2

\* number of analyze calls on one Atlas
MaxAnalyses == 2

\* length of the no_mangle list of a Guesser
MaxNoMangle == 3

\* uses made of one symbol report
MaxUses == 3

\* ------------------------------------------------------------------------
\* State
\* ------------------------------------------------------------------------
VARIABLES
    default_lang,          \* LangDetector.default_lang
    default_mangled_lang,  \* LangDetector.default_mangled_lang
    libs,                  \* LangDetector.libs
    syms,                  \* Atlas.syms
    fails,                 \* Atlas.fails
    analyses,              \* number of analyze calls made on the Atlas
    packages,              \* Guesser.packages
    no_mangle,             \* Guesser.no_mangle
    report,                \* the SymbolReport held on syms, if any
    call                   \* the last call: operation, arguments, result

vars == <<default_lang, default_mangled_lang, libs, syms, fails, analyses,
          packages, no_mangle, report, call>>

detector == <<default_lang, default_mangled_lang, libs>>
atlas == <<syms, fails, analyses>>
guesser == <<packages, no_mangle>>

NoCall == [op |-> "none"]

\* a panic ends the program
Running == ~(call.op # "none" /\ ~call.res.ok /\ call.res.err = "Panic")

\* LangDetector::new
InitDetector ==
    /\ \E dp \in DefaultLangs :
          /\ default_lang = dp[1]
          /\ default_mangled_lang = dp[2]
    /\ libs = <<>>

\* Atlas::new
InitAtlas ==
    /\ syms = <<>>
    /\ fails = <<>>
    /\ analyses = 0

\* Guesser::new
InitGuesser ==
    /\ packages = <<>>
    /\ no_mangle = <<>>

Init ==
    /\ InitDetector
    /\ InitAtlas
    /\ InitGuesser
    /\ report = NoReport
    /\ call = NoCall

\* LangDetector::add_lib on a library drawn from inputs
add_lib(inputs) ==
    /\ \E lang \in SymbolLangs, in \in inputs :
          LET st == add_lib_status(in.open, in.m, in.d) IN
          /\ libs' = IF st.ok THEN Append(libs, add_lib_parsed(lang, in.m, in.d))
                     ELSE libs
          /\ call' = [op |-> "add_lib", lang |-> lang, in |-> in, res |-> st,
                      nm_runs |-> add_lib_nm_runs(in.open, in.m, in.d)]
    /\ UNCHANGED <<default_lang, default_mangled_lang, atlas, guesser, report>>

AddLib ==
    /\ Len(libs) < MaxLibs
    /\ add_lib(DetectorLibs)

\* LangDetector::detect
Detect ==
    /\ \E q \in DetectQueries :
          call' = [op |-> "detect", mangled |-> q[1], demangled |-> q[2],
                   res |-> detect(libs, default_lang, default_mangled_lang,
                                  q[1], q[2])]
    /\ UNCHANGED <<detector, atlas, guesser, report>>

Next == AddLib \/ Detect

\* a detector being built and queried
Spec == Init /\ [][Next]_vars

\* the first add_lib on a new detector
AddFirstLib ==
    /\ call = NoCall
    /\ add_lib(AllLibInputs)

NextLib == AddFirstLib

SpecLib == Init /\ [][NextLib]_vars

\* analyze that starts from empty collections
analyze_from_empty(lib, elf, sy, fl) ==
    IF ~add_lib_status(lib.open, lib.m, lib.d).ok
    THEN [syms |-> sy, fails |-> fl, res |-> Err("Panic")]
    ELSE analyze_elf(sy, fl,
                     analyze_status(elf.m, elf.d),
                     analyze_loop(<<add_lib_parsed(AnalyzeLibLang, lib.m, lib.d)>>,
                                  Zip(elf.m.lines, elf.d.lines), 1,
                                  [syms |-> <<>>, fails |-> <<>>]))

\* Atlas::analyze.  The detector lives inside the call: a new detector with
\* the static Rust library added, whose failure is unwrapped.
analyze(lib, elf, sy, fl) ==
    IF ~add_lib_status(lib.open, lib.m, lib.d).ok
    THEN [syms |-> sy, fails |-> fl, res |-> Err("Panic")]
    ELSE analyze_elf(sy, fl,
                     analyze_status(elf.m, elf.d),
                     analyze_loop(<<add_lib_parsed(AnalyzeLibLang, lib.m, lib.d)>>,
                                  Zip(elf.m.lines, elf.d.lines), 1,
                                  [syms |-> sy, fails |-> fl]))

after_analyze(lib, elf, out) ==
    /\ syms' = out.syms
    /\ fails' = out.fails
    /\ call' = [op |-> "analyze", lib |-> lib, elf |-> elf, res |-> out.res]

Analyze ==
    /\ Running
    /\ analyses < MaxAnalyses
    /\ analyses' = analyses + 1
    /\ \E lib \in AtlasLibs, elf \in ElfListings :
          after_analyze(lib, elf, analyze(lib, elf, syms, fails))
    /\ UNCHANGED <<detector, guesser, report>>

\* Atlas::report_lang
ReportLang ==
    /\ Running
    /\ call' = [op |-> "report_lang", res |-> report_lang(syms)]
    /\ UNCHANGED <<detector, atlas, guesser, report>>

\* Atlas::report_func and the iteration of the report
ReportFunc ==
    /\ Running
    /\ \E langs \in ReportLangs, mem_type \in ReportRegions, max_count \in ReportMaxCounts :
          call' = [op |-> "report_func", lang |-> langs, mem_type |-> mem_type,
                   max_count |-> max_count,
                   res |-> report_func(syms, langs, mem_type, max_count)]
    /\ UNCHANGED <<detector, atlas, guesser, report>>

InitTool ==
    /\ default_lang = AnalyzeDefaultLang
    /\ default_mangled_lang = AnalyzeDefaultMangledLang
    /\ libs = <<>>
    /\ InitAtlas
    /\ InitGuesser
    /\ report = NoReport
    /\ call = NoCall

NextAtlas == Analyze \/ ReportLang \/ ReportFunc

\* an Atlas analysing and reporting
SpecAtlas == InitTool /\ [][NextAtlas]_vars

\* Guesser::set_packages
SetPackages ==
    /\ \E pkgs \in PackageLists :
          /\ packages' = set_packages(pkgs)
          /\ call' = [op |-> "set_packages", packages |-> pkgs, res |-> Ok("unit")]
    /\ UNCHANGED <<detector, atlas, no_mangle, report>>

\* Guesser::from_lock; the lockfile either fails to load or lists packages
FromLock ==
    /\ \E lock \in {Err("Load")} \cup {Ok(pkgs) : pkgs \in PackageLists} :
          /\ packages' = IF lock.ok THEN set_packages(lock.val) ELSE packages
          /\ call' = [op |-> "from_lock", lock |-> lock,
                      res |-> IF lock.ok THEN Ok("unit") ELSE Err("SymbolParseError")]
    /\ UNCHANGED <<detector, atlas, no_mangle, report>>

\* Guesser::set_no_mangle
SetNoMangle ==
    /\ \E names \in NoMangleLists :
          /\ no_mangle' = names
          /\ call' = [op |-> "set_no_mangle", no_mangle |-> names, res |-> Ok("unit")]
    /\ UNCHANGED <<detector, atlas, packages, report>>

\* Guesser::from_lib
FromLib ==
    /\ Len(no_mangle) < MaxNoMangle
    /\ \E out \in LibListings :
          LET st == from_lib_status(out.m, out.d) IN
          /\ no_mangle' = IF st.ok
                          THEN from_lib_loop(Zip(out.m.lines, out.d.lines), 1, no_mangle)
                          ELSE no_mangle
          /\ call' = [op |-> "from_lib", out |-> out, res |-> st]
    /\ UNCHANGED <<detector, atlas, packages, report>>

\* Guesser::guess
Guess ==
    /\ \E q \in GuessQueries, syn \in SynPaths :
          call' = [op |-> "guess", mangled |-> q[1], demangled |-> q[2], syn |-> syn,
                   res |-> guess(packages, no_mangle, q[1], q[2], syn)]
    /\ UNCHANGED <<detector, atlas, guesser, report>>

NextGuesser == SetPackages \/ FromLock \/ SetNoMangle \/ FromLib \/ Guess

\* a Guesser being configured and queried
SpecGuesser == InitTool /\ [][NextGuesser]_vars

\* Symbol::related on two symbols
Related ==
    /\ \E a \in RelatedBases, b \in RelatedSymbols :
          call' = [op |-> "related", a |-> a, b |-> b, res |-> Ok(related(a, b))]
    /\ UNCHANGED <<detector, atlas, guesser, report>>

\* SymbolType::mem_region on a kind
MemRegion ==
    /\ \E t \in SymbolTypes :
          call' = [op |-> "mem_region", sym_type |-> t,
                   res |-> IF mem_region(t) = "Panic" THEN Err("Panic")
                           ELSE Ok(mem_region(t))]
    /\ UNCHANGED <<detector, atlas, guesser, report>>

\* Symbol::from_str on a line
FromStr ==
    /\ \E in \in FieldLines \cup DefectLines :
          call' = [op |-> "from_str", in |-> in, res |-> from_str(in.line)]
    /\ UNCHANGED <<detector, atlas, guesser, report>>

NextSym == Related \/ MemRegion \/ FromStr

\* LangReport::iter_region on a report
IterRegion ==
    /\ \E lr \in LangReports, region \in MemoryRegions :
          call' = [op |-> "iter_region", report |-> lr, mem_region |-> region,
                   res |-> iter_region(lr, region)]
    /\ UNCHANGED <<detector, atlas, guesser, report>>

\* LangReport::size_pct, asked for every language
SizePct ==
    /\ \E lr \in LangReports, region \in MemoryRegions :
          call' = [op |-> "size_pct", report |-> lr, mem_region |-> region,
                   res |-> IF ~size(lr, "Any", region).ok THEN Err("Panic")
                           ELSE Ok([l \in SymbolLangs |-> size_pct(lr, l, region).val])]
    /\ UNCHANGED <<detector, atlas, guesser, report>>

NextReport == IterRegion \/ SizePct

\* the functions of a LangReport applied to arguments
SpecReport == InitTool /\ [][NextReport]_vars

\* the functions of a Symbol applied to arguments
SpecSym == InitTool /\ [][NextSym]_vars

\* the collections an analysis leaves behind
Analysed ==
    {out \in {analyze(lib, elf, <<>>, <<>>) : lib \in AtlasLibs, elf \in ElfListings} :
        out.res.ok}

\* an Atlas after one successful analyze
InitAnalysed ==
    /\ default_lang = AnalyzeDefaultLang
    /\ default_mangled_lang = AnalyzeDefaultMangledLang
    /\ libs = <<>>
    /\ \E out \in Analysed :
          /\ syms = out.syms
          /\ fails = out.fails
    /\ analyses = 1
    /\ InitGuesser
    /\ report = NoReport
    /\ call = NoCall

\* Atlas::report_func, the report being kept
KeepReport ==
    /\ Running
    /\ \E langs \in ReportLangs, mem_type \in ReportRegions, max_count \in ReportMaxCounts :
          /\ report' = SymbolReport(syms, langs, mem_type, max_count)
          /\ call' = [op |-> "keep_report", lang |-> langs, mem_type |-> mem_type,
                      max_count |-> max_count, res |-> Ok(<<>>)]
    /\ UNCHANGED <<detector, atlas, guesser>>

\* the number of uses made of the report held, this one included
Uses == IF call.op \in {"into_iter", "print"} THEN call.n + 1 ELSE 1

\* (&report).into_iter() and a full iteration
IntoIter ==
    /\ Running
    /\ report.live
    /\ Uses <= MaxUses
    /\ LET it == into_iter(report, syms) IN
          /\ report' = it.report
          /\ call' = [op |-> "into_iter", n |-> Uses, res |-> it.res]
    /\ UNCHANGED <<detector, atlas, guesser>>

\* report.print(human_readable, writer)
PrintReport ==
    /\ Running
    /\ report.live
    /\ Uses <= MaxUses
    /\ \E outcome \in PrintOutcomes :
          call' = [op |-> "print", n |-> Uses, res |-> print(report, syms, outcome)]
    /\ UNCHANGED <<detector, atlas, guesser, report>>

NextSymbolReport == KeepReport \/ IntoIter \/ PrintReport

\* a symbol report being iterated and printed
SpecSymbolReport == InitAnalysed /\ [][NextSymbolReport]_vars

\* ------------------------------------------------------------------------
\* Properties of the detector
\* ------------------------------------------------------------------------
\* the libraries of the detector that contain a symbol related to sym
Matching(sym) ==
    {i \in 1..Len(libs) : \E k \in 1..Len(libs[i].syms) : related(sym, libs[i].syms[k])}

Detected == call.op = "detect" /\ call.res.ok

\* C1: when two or more libraries contain a symbol related to the queried one,
\* detect returns the declared language of the library that was added first.
C1_FirstMatchWins ==
    Detected =>
        LET M == Matching(call.res.val) IN
        Cardinality(M) >= 2 => call.res.val.lang = libs[Min(M)].lang

C1_Witness ==
    /\ Detected
    /\ LET M == Matching(call.res.val) IN
       /\ Cardinality(M) >= 2
       /\ libs[Min(M)].lang # libs[Max(M)].lang
       /\ call.res.val.lang = libs[Min(M)].lang

\* C2: when no library contains a related symbol, detect returns default_lang
\* for equal names and default_mangled_lang for different names.
C2_Fallback ==
    (Detected /\ Matching(call.res.val) = {}) =>
        /\ call.res.val.mangled = call.res.val.demangled
              => call.res.val.lang = default_lang
        /\ call.res.val.mangled # call.res.val.demangled
              => call.res.val.lang = default_mangled_lang

C2_Witness ==
    /\ Detected
    /\ Matching(call.res.val) = {}
    /\ call.res.val.mangled # call.res.val.demangled
    /\ call.res.val.lang = default_mangled_lang
    /\ default_mangled_lang # default_lang

\* C3: a symbol with equal mangled and demangled names that is related to a
\* library symbol gets the language of that library, not default_lang.
C3_LibraryBeforeFallback ==
    (/\ Detected
     /\ call.res.val.mangled = call.res.val.demangled
     /\ Matching(call.res.val) # {})
        => \E i \in Matching(call.res.val) :
              /\ call.res.val.lang = libs[i].lang
              /\ \A j \in Matching(call.res.val) : i <= j

C3_Witness ==
    /\ Detected
    /\ call.res.val.mangled = call.res.val.demangled
    /\ Matching(call.res.val) # {}
    /\ call.res.val.lang # default_lang
    /\ libs[Min(Matching(call.res.val))].lang # default_lang

\* C6: every symbol stored in a library index has the declared language of
\* the library.
C6_IndexHasDeclaredLang ==
    \A i \in 1..Len(libs) : \A k \in 1..Len(libs[i].syms) :
        libs[i].syms[k].lang = libs[i].lang

\* ------------------------------------------------------------------------
\* Properties of add_lib
\* ------------------------------------------------------------------------
AddedLib == call.op = "add_lib" /\ call.res.ok

\* the fields of a symbol that come from the lines
Entry(s) == <<s.addr, s.size, s.sym_type, s.mangled, s.demangled>>

\* the line pairs of the last add_lib that parse and combine
WellFormed ==
    LET pairs == Zip(call.in.m.lines, call.in.d.lines) IN
    {from_rawsymbols(pairs[i][1], pairs[i][2]).val :
        i \in {j \in 1..Len(pairs) : from_rawsymbols(pairs[j][1], pairs[j][2]).ok}}

Letters ==
    {"a","b","c","d","e","f","g","h","i","j","k","l","m","n","o","p","q","r",
     "s","t","u","v","w","x","y","z","A","B","C","D","E","F","G","H","I","J",
     "K","L","M","N","O","P","Q","R","S","T","U","V","W","X","Y","Z"}

Kept(s) ==
    \/ s.mangled # s.demangled
    \/ /\ s.mangled = s.demangled
       /\ s.mangled[1] \in Letters \cup {"_"}
       /\ \A k \in 1..Len(s.mangled) :
             s.mangled[k] \in Letters \cup DigitChars \cup {"_", "."}

Stored == {Entry(libs[Len(libs)].syms[k]) : k \in 1..Len(libs[Len(libs)].syms)}

\* C7: add_lib stores a well-formed pair iff its names differ, or they are
\* equal and form an identifier (letter or '_' first, then letters, digits,
\* '_' and '.').
C7_IndexFilter ==
    AddedLib => \A s \in WellFormed : (Entry(s) \in Stored) <=> Kept(s)

C7_Witness ==
    /\ AddedLib
    /\ \E s \in WellFormed : s.mangled = N_obj /\ Entry(s) \in Stored
    /\ \E s \in WellFormed : s.mangled = N_anon /\ Entry(s) \notin Stored

\* ------------------------------------------------------------------------
\* Properties of the Guesser
\* ------------------------------------------------------------------------
GuessedLines ==
    [m |-> from_str(call.mangled), d |-> from_str(call.demangled)]

\* the invalid-symbol error as the Guesser reports it
Rejected(res) == ~res.ok /\ res.err = "SymbolParseError"

\* C4: a pair of lines whose address, size or kind differ is rejected by the
\* combining step with InvalidSymbol: whenever both lines parse and the
\* call succeeds, the three fields agree, and whenever one of them differs
\* the call returns the invalid-symbol error.
C4_MismatchRejected ==
    (call.op = "guess" /\ GuessedLines.m.ok /\ GuessedLines.d.ok) =>
        LET m == GuessedLines.m.val
            d == GuessedLines.d.val
        IN  /\ call.res.ok =>
                (m.addr = d.addr /\ m.size = d.size /\ m.sym_type = d.sym_type)
            /\ (m.addr # d.addr \/ m.size # d.size \/ m.sym_type # d.sym_type) =>
                Rejected(call.res)

\* ------------------------------------------------------------------------
\* Properties of Symbol
\* ------------------------------------------------------------------------
\* C5: two symbols that differ only in their address are related, and two
\* symbols that differ in the mangled name, the demangled name, the kind or
\* the size are not.
C5_RelatedIgnoresAddress ==
    call.op = "related" =>
        LET a == call.a
            b == call.b
        IN  /\ ([a EXCEPT !.addr = b.addr] = b) => call.res.val = TRUE
            /\ (\/ a.mangled # b.mangled
                \/ a.demangled # b.demangled
                \/ a.sym_type # b.sym_type
                \/ a.size # b.size) => call.res.val = FALSE

C5_Witness ==
    /\ call.op = "related"
    /\ call.a.addr # call.b.addr
    /\ [call.a EXCEPT !.addr = call.b.addr] = call.b
    /\ call.res.val = TRUE

\* ------------------------------------------------------------------------
\* Properties of Atlas
\* ------------------------------------------------------------------------
\* the line pairs of the ELF listing of an analyze call
ElfPairs(c) == Zip(c.elf.m.lines, c.elf.d.lines)

\* analyze got past the library and the two nm runs
BatchStarted(c) ==
    /\ c.op = "analyze"
    /\ add_lib_status(c.lib.open, c.lib.m, c.lib.d).ok
    /\ analyze_status(c.elf.m, c.elf.d).ok

Combined(pair) == from_rawsymbols(pair[1], pair[2])

\* C8: once the batch has started, a line pair that fails to parse or to
\* combine never aborts it: every pair either adds one symbol to syms or is
\* appended, as the pair of raw lines, to fails, never both and never
\* neither, and analyze returns Ok.
C8_AnalyzeNeverAborts ==
    [][ BatchStarted(call') =>
          LET pairs == ElfPairs(call')
              good  == {i \in 1..Len(pairs) : Combined(pairs[i]).ok}
              bad   == {i \in 1..Len(pairs) : ~Combined(pairs[i]).ok}
          IN  /\ call'.res.ok
              /\ Len(syms') = Len(syms) + Cardinality(good)
              /\ Len(fails') = Len(fails) + Cardinality(bad)
              /\ SubSeq(fails', 1, Len(fails)) = fails
              /\ \A i \in good :
                    /\ \E k \in 1..Len(syms') :
                          Entry(syms'[k]) = Entry(Combined(pairs[i]).val)
                    /\ \A k \in (Len(fails) + 1)..Len(fails') : fails'[k] # pairs[i]
              /\ \A i \in bad :
                    \E k \in (Len(fails) + 1)..Len(fails') : fails'[k] = pairs[i]
      ]_vars

C8_Witness ==
    /\ BatchStarted(call)
    /\ call.res.ok
    /\ \E i, j \in 1..Len(ElfPairs(call)) :
          /\ i < j
          /\ ~Combined(ElfPairs(call)[i]).ok
          /\ Combined(ElfPairs(call)[j]).ok
    /\ fails # <<>>
    /\ syms # <<>>

Unresolved(s) == mem_region(s.sym_type) = "Panic"

\* C9: a report by language, and a function report filtered by Rom or Ram,
\* over symbols of which one has a kind without a region does not crash, and
\* the function report leaves that symbol out.
C9_ReportsSkipUnresolved ==
    /\ call.op = "report_lang" => call.res.ok
    /\ (call.op = "report_func" /\ call.mem_type \in {"Rom", "Ram"}) =>
          /\ call.res.ok
          /\ \A k \in 1..Len(call.res.val) : ~Unresolved(call.res.val[k])

RECURSIVE SumSizes(_, _, _)
\* the sizes of the symbols from i on whose region is in regions
SumSizes(sy, i, regions) ==
    IF i > Len(sy) THEN 0
    ELSE (IF mem_region(sy[i].sym_type) \in regions THEN sy[i].size ELSE 0)
         + SumSizes(sy, i + 1, regions)

RegionsOf(r) == IF r = "Both" THEN {"Rom", "Ram"} ELSE {r}

\* C10: in a report by language, for each region r of Rom, Ram and Both the
\* size of Any is the sum of the sizes of C, Cpp and Rust, and it is the sum
\* of the sizes of all analysed symbols whose region is r.
C10_SizeAdditive ==
    (call.op = "report_lang" /\ call.res.ok) =>
        \A r \in {"Rom", "Ram", "Both"} :
            LET rep == call.res.val IN
            /\ size(rep, "Any", r).ok
            /\ size(rep, "Any", r).val =
                 size(rep, "C", r).val + size(rep, "Cpp", r).val
                 + size(rep, "Rust", r).val
            /\ size(rep, "Any", r).val = SumSizes(syms, 1, RegionsOf(r))

C10_Witness ==
    /\ call.op = "report_lang"
    /\ call.res.ok
    /\ \A l \in ConcreteLangs, r \in {"Rom", "Ram"} :
          size(call.res.val, l, r).val > 0

\* ------------------------------------------------------------------------
\* Properties of SymbolType
\* ------------------------------------------------------------------------
UnresolvedTypes ==
    {"Absolute", "Common", "Global", "Indirect", "IndirectFunction", "Debug",
     "StackUnwindSection", "UninitializedOrZeroInitialized", "Undefined",
     "UniqueGlobal", "Stabs", "Unknown"}

\* C11: mem_region gives Rom for TextSection, Weak and TaggedWeak, Ram for
\* BssSection and DataSection, and for every unresolved kind neither of the
\* two but the fatal outcome.
C11_RegionOfKind ==
    call.op = "mem_region" =>
        /\ call.sym_type \in {"TextSection", "Weak", "TaggedWeak"} =>
              call.res = Ok("Rom")
        /\ call.sym_type \in {"BssSection", "DataSection"} => call.res = Ok("Ram")
        /\ call.sym_type \in UnresolvedTypes => call.res = Err("Panic")

C11_Witness ==
    /\ call.op = "mem_region"
    /\ call.sym_type = "Weak"
    /\ call.res = Ok("Rom")

Passes(s, langs, region) ==
    /\ Contains(langs, "Any") \/ Contains(langs, s.lang)
    /\ region = "Both" \/ mem_region(s.sym_type) = region

Count(seq, x) == Cardinality({k \in 1..Len(seq) : seq[k] = x})

Range(seq) == {seq[k] : k \in 1..Len(seq)}

\* what the iteration of the last symbol report yielded
Yielded == IF call.res.ok THEN call.res.val ELSE call.res.yielded

\* C13: with max_count None the symbol report yields exactly the analysed
\* symbols that pass the language filter and the region filter: every
\* passing symbol as often as it is in syms, and no other symbol.
C13_ReportYieldsPassing ==
    (call.op = "report_func" /\ call.max_count = <<>>) =>
        /\ call.res.ok
        /\ \A x \in Range(syms) \cup Range(Yielded) :
              Count(Yielded, x) =
                 IF Passes(x, call.lang, call.mem_type) THEN Count(syms, x) ELSE 0

\* C14: the symbol report yields its symbols in non-increasing order of
\* size, and its first symbol is a largest of those that pass the filters.
C14_LargestFirst ==
    call.op = "report_func" =>
        /\ \A i, j \in 1..Len(Yielded) : i < j => Yielded[i].size >= Yielded[j].size
        /\ Yielded # <<>> =>
              \A k \in 1..Len(syms) :
                 Passes(syms[k], call.lang, call.mem_type) =>
                    Yielded[1].size >= syms[k].size

C14_Witness ==
    /\ call.op = "report_func"
    /\ Len(Yielded) >= 2
    /\ Yielded[1].size > Yielded[2].size
    /\ \E k \in 1..Len(syms) : ~Passes(syms[k], call.lang, call.mem_type)

\* ------------------------------------------------------------------------
\* Properties of the language report
\* ------------------------------------------------------------------------
\* position of a language in the enumeration C, Cpp, Rust
LangOrder(l) == CASE l = "C" -> 1 [] l = "Cpp" -> 2 [] l = "Rust" -> 3

\* C15: iter_region on Rom, Ram or Both yields three entries, one for each
\* of C, Cpp and Rust with the size of that language in the region, in
\* non-increasing order of size, languages of equal size in the order C,
\* Cpp, Rust.
C15_IterRegionOrder ==
    (call.op = "iter_region" /\ call.mem_region \in {"Rom", "Ram", "Both"}) =>
        /\ call.res.ok
        /\ Len(call.res.val) = 3
        /\ {call.res.val[k].lang : k \in 1..3} = {"C", "Cpp", "Rust"}
        /\ \A k \in 1..3 :
              call.res.val[k].size =
                 size(call.report, call.res.val[k].lang, call.mem_region).val
        /\ \A i, j \in 1..3 :
              i < j =>
                 \/ call.res.val[i].size > call.res.val[j].size
                 \/ /\ call.res.val[i].size = call.res.val[j].size
                    /\ LangOrder(call.res.val[i].lang) < LangOrder(call.res.val[j].lang)

C15_Witness ==
    /\ call.op = "iter_region"
    /\ call.mem_region = "Rom"
    /\ call.res.ok
    /\ call.res.val[1].lang = "Rust"
    /\ call.res.val[2].size = call.res.val[3].size
    /\ call.res.val[2].size > 0

\* ------------------------------------------------------------------------
\* Properties of parsing
\* ------------------------------------------------------------------------
\* C16: a line written out from an address, a size, a recognised tag and a
\* name without leading or trailing whitespace, with any whitespace around
\* and between the fields, parses to exactly that address, size, the kind
\* of the tag and the name.
C16_ParseRoundTrip ==
    (call.op = "from_str" /\ call.in.defect = "none") =>
        /\ call.res.ok
        /\ call.res.val.addr = call.in.addr
        /\ call.res.val.size = call.in.size
        /\ call.res.val.sym_type = SymbolTypeOfTag(call.in.tag)
        /\ call.res.val.name = call.in.name

\* C17: a line that is empty or only whitespace, whose address or size is
\* not eight hexadecimal digits, whose tag is not recognised or is longer
\* than one character, or that has no name, fails with InvalidSymbol.
C17_ParseFails ==
    (call.op = "from_str" /\ call.in.defect # "none") =>
        call.res = Err("InvalidSymbol")

C17_Witness ==
    /\ call.op = "from_str"
    /\ call.in.defect = "long_tag"
    /\ ~call.res.ok

\* ------------------------------------------------------------------------
\* Properties of analyze and the reports, continued
\* ------------------------------------------------------------------------
\* C18: when the library cannot be indexed or one of the two nm runs on the
\* ELF fails, analyze returns an error to its caller, it does not panic, and
\* syms and fails are as they were before the call.
C18_StartFailurePropagates ==
    [][ (call'.op = "analyze" /\ ~BatchStarted(call')) =>
          /\ ~call'.res.ok
          /\ call'.res.err # "Panic"
          /\ syms' = syms
          /\ fails' = fails
      ]_vars

\* C19: on an Atlas on which analyze was not called, report_lang and the
\* symbol report return no report.
C19_NoReportBeforeAnalyze ==
    (call.op \in {"report_lang", "report_func"} /\ analyses = 0) => ~call.res.ok

\* ------------------------------------------------------------------------
\* Properties of add_lib, continued
\* ------------------------------------------------------------------------
\* the positions of the line pairs of the last add_lib that combine and
\* pass the filter
KeptPositions ==
    LET pairs == Zip(call.in.m.lines, call.in.d.lines) IN
    {i \in 1..Len(pairs) : Combined(pairs[i]).ok /\ Kept(Combined(pairs[i]).val)}

\* the k-th position of a set of positions
Nth(S, k) == CHOOSE i \in S : Cardinality({j \in S : j < i}) = k - 1

\* the open and the two nm runs of the last add_lib went through
LinesRead ==
    /\ call.op = "add_lib"
    /\ call.in.open = "Ok"
    /\ call.in.m.st = "Ok"
    /\ call.in.d.st = "Ok"

\* C20: add_lib does not fail because of a line: once the listings are
\* read it returns Ok, and the index is the sequence of the pairs that
\* combine and pass the filter, in their input order; a pair that does not
\* combine is skipped and the pairs after it are still processed.
C20_IndexInInputOrder ==
    LinesRead =>
        LET pairs == Zip(call.in.m.lines, call.in.d.lines)
            index == libs[Len(libs)].syms
        IN  /\ call.res.ok
            /\ Len(index) = Cardinality(KeptPositions)
            /\ \A k \in 1..Len(index) :
                  Entry(index[k]) = Entry(Combined(pairs[Nth(KeptPositions, k)]).val)

C20_Witness ==
    /\ LinesRead
    /\ call.res.ok
    /\ \E i, j, k \in 1..Len(Zip(call.in.m.lines, call.in.d.lines)) :
          /\ i < j /\ j < k
          /\ i \in KeptPositions
          /\ ~Combined(Zip(call.in.m.lines, call.in.d.lines)[j]).ok
          /\ k \in KeptPositions
    /\ Len(libs[Len(libs)].syms) = 2

\* ------------------------------------------------------------------------
\* Properties of the symbol report, continued
\* ------------------------------------------------------------------------
\* the positions in syms of the symbols that pass the filters of the last
\* symbol report
PassingPositions ==
    {k \in 1..Len(syms) : Passes(syms[k], call.lang, call.mem_type)}

\* the j-th position of a set of positions, counted from the largest
NthFromEnd(S, j) == CHOOSE i \in S : Cardinality({x \in S : x > i}) = j - 1

\* the passing symbols, last of syms first: the report without a limit
Unlimited ==
    [j \in 1..Cardinality(PassingPositions) |-> syms[NthFromEnd(PassingPositions, j)]]

\* C21: with max_count = Some(n) the symbol report yields the first
\* min(n, m) symbols of the report without a limit, m being the number of
\* symbols that pass the language and region filters; Some(0) yields nothing.
C21_LimitAfterFilter ==
    (call.op = "report_func" /\ call.max_count # <<>>) =>
        /\ call.res.ok
        /\ call.res.val =
             SubSeq(Unlimited, 1, Min({call.max_count[1], Len(Unlimited)}))

\* C22: iterating a symbol report, or printing it, leaves the report and
\* the collection under it unchanged, and every iteration yields the sequence
\* of a first iteration, from the beginning.
C22_Restartable ==
    [][call'.op \in {"into_iter", "print"} =>
          /\ report' = report
          /\ syms' = syms
          /\ call'.op = "into_iter" =>
                call'.res = report_func(syms, report.lang, report.mem_type,
                                        report.max_count)]_vars

\* a third use of a report, an iteration that yields two symbols
C22_Witness ==
    /\ report.live
    /\ call.op = "into_iter"
    /\ call.n = 3
    /\ call.res.ok
    /\ Len(call.res.val) >= 2

\* ------------------------------------------------------------------------
\* Properties of analyze, continued
\* ------------------------------------------------------------------------
\* the sizes nm listed, for the pairs that combine
ListedSizes(c) ==
    LET pairs == ElfPairs(c)
        good  == {i \in 1..Len(pairs) : Combined(pairs[i]).ok}
    IN  [j \in 1..Cardinality(good) |-> Combined(pairs[Nth(good, j)]).val.size]

NonDecreasing(sizes) ==
    \A i, j \in 1..Len(sizes) : i < j => sizes[i] <= sizes[j]

\* C23: after every successful analyze, in whatever order nm listed the
\* symbols, syms is ordered by non-decreasing size.
C23_SortedAfterAnalyze ==
    (call.op = "analyze" /\ call.res.ok) =>
        NonDecreasing([k \in 1..Len(syms) |-> syms[k].size])

\* a second successful analyze, of a listing that is not in order of size
C23_Witness ==
    /\ call.op = "analyze"
    /\ call.res.ok
    /\ analyses = 2
    /\ ~NonDecreasing(ListedSizes(call))
    /\ Len(syms) >= 4

\* ------------------------------------------------------------------------
\* Properties of parsing, continued
\* ------------------------------------------------------------------------
\* C24: a line whose name is a single non-whitespace character, such as
\* "20001370 00000010 b s", parses, and the name is that character.
C24_SingleCharName ==
    (call.op = "from_str" /\ call.in.defect = "none" /\ Len(call.in.name) = 1) =>
        /\ call.res.ok
        /\ call.res.val.name = call.in.name

\* ------------------------------------------------------------------------
\* Properties of add_lib, continued
\* ------------------------------------------------------------------------
\* C25: an add_lib whose library file cannot be opened returns the Io error
\* with the error of the open as its cause, whatever nm would do and without
\* running nm; a failed add_lib leaves libs unchanged.
C25_OpenCheckedFirst ==
    [][call'.op = "add_lib" =>
          /\ call'.in.open # "Ok" =>
                /\ call'.res = ErrWith("Io", call'.in.open)
                /\ call'.nm_runs = 0
          /\ ~call'.res.ok => libs' = libs]_vars

\* a library that cannot be opened, given with an nm that cannot be started,
\* added to a detector that holds a library already
C25_Witness ==
    /\ call.op = "add_lib"
    /\ call.in.open = "PermissionDenied"
    /\ call.in.m.st = "SpawnErr"
    /\ ~call.res.ok
    /\ libs # <<>>

\* ------------------------------------------------------------------------
\* Properties of the Guesser, continued
\* ------------------------------------------------------------------------
\* the last guess was made on two lines that parse to the same name
EqualNames ==
    /\ call.op = "guess"
    /\ GuessedLines.m.ok
    /\ GuessedLines.d.ok
    /\ GuessedLines.m.val.name = GuessedLines.d.val.name

\* C27: a pair of lines with equal names that guess accepts is Rust when
\* the name is in no_mangle and C when it is not, whatever the package list
\* holds and whatever syn makes of the name.
C27_EqualNamesByNoMangle ==
    (EqualNames /\ ~guess_rejects(GuessedLines.m.val, GuessedLines.d.val)) =>
        /\ call.res.ok
        /\ call.res.val.lang =
             IF Contains(no_mangle, GuessedLines.m.val.name) THEN "Rust" ELSE "C"

\* a name that is not in a non-empty no_mangle, guessed as C although the
\* first segment of its path is a package
C27_Witness ==
    /\ EqualNames
    /\ call.res.ok
    /\ call.res.val.lang = "C"
    /\ no_mangle # <<>>
    /\ call.syn.k = "Path"
    /\ Contains(packages, call.syn.ident)

\* ------------------------------------------------------------------------
\* Properties of LangReport, continued
\* ------------------------------------------------------------------------
\* percentages were asked of a report whose region holds something
PctAsked ==
    /\ call.op = "size_pct"
    /\ call.res.ok
    /\ size(call.report, "Any", call.mem_region).val # 0

\* 100_f64
Hundred == f64_div(100, 1)

\* C + Cpp + Rust, as f64
PctSum == f64_add(f64_add(call.res.val["C"], call.res.val["Cpp"]), call.res.val["Rust"])

\* C26 as stated: for a region of nonzero size the percentage of Any is 100
\* and the percentages of C, Cpp and Rust sum to 100.
C26_PercentagesExact ==
    PctAsked =>
        /\ call.res.val["Any"] = Hundred
        /\ PctSum = Hundred

\* x is less than 2^-33 away from 100, which is within the 1e-8 of the
\* tests: its first 40 bits are those of 100 or those of the f64 below 100
NearHundred(x) ==
    /\ x.k = "Num"
    /\ x.exp = 6
    /\ \/ SubSeq(x.man, 1, 40) = SubSeq(Hundred.man, 1, 40)
       \/ SubSeq(x.man, 1, 40) = [i \in 1..40 |-> IF i \in {3, 4, 5} THEN 0 ELSE 1]

\* C26 amended: for a region of nonzero size, each percentage is the f64
\* quotient of the hundredfold size by the size of Any, the percentage of Any
\* is 100, and the percentages of C, Cpp and Rust sum to 100 up to the
\* rounding of f64, always within 1e-8.
C26_PercentagesRounded ==
    PctAsked =>
        /\ \A l \in SymbolLangs :
              call.res.val[l] =
                 f64_div(100 * size(call.report, l, call.mem_region).val,
                         size(call.report, "Any", call.mem_region).val)
        /\ call.res.val["Any"] = Hundred
        /\ NearHundred(PctSum)

\* percentages of three languages that are all there, whose f64 sum is not 100
C26_Witness ==
    /\ PctAsked
    /\ \A l \in ConcreteLangs : call.res.val[l].k = "Num"
    /\ PctSum # Hundred

\* ------------------------------------------------------------------------
\* Properties of repeated analyses
\* ------------------------------------------------------------------------
\* C28: an analyze removes or replaces no entry of syms or fails, whatever
\* its outcome; a successful analyze of the binary and library that the
\* successful first analyze was given leaves every symbol in syms, and every
\* pair in fails, twice as often as before.
C28_AnalyzeAccumulates ==
    [][call'.op = "analyze" =>
          /\ \A s \in Range(syms) : Count(syms', s) >= Count(syms, s)
          /\ SubSeq(fails', 1, Len(fails)) = fails
          /\ ( /\ call.op = "analyze"
               /\ call.res.ok
               /\ analyses = 1
               /\ call'.res.ok
               /\ call'.elf = call.elf
               /\ call'.lib = call.lib ) =>
                 /\ Len(syms') = 2 * Len(syms)
                 /\ \A s \in Range(syms') : Count(syms', s) = 2 * Count(syms, s)
                 /\ \A f \in Range(fails') : Count(fails', f) = 2 * Count(fails, f)
      ]_vars

\* a second successful analyze after which every symbol is there twice and
\* fails has grown
C28_Witness ==
    /\ call.op = "analyze"
    /\ call.res.ok
    /\ analyses = 2
    /\ Len(syms) >= 4
    /\ \A s \in Range(syms) : Count(syms, s) = 2
    /\ Len(fails) >= 2

\* ------------------------------------------------------------------------
\* Properties of the pairing of the two listings
\* ------------------------------------------------------------------------
\* the number of lines of the shorter of two listings
Shorter(out) == Min({Len(out.m.lines), Len(out.d.lines)})

\* the name on a line, <<>> for a line that does not parse
NameOn(line) == IF from_str(line).ok THEN from_str(line).val.name ELSE <<>>

\* C29: analyze and the add_lib inside it pair the two listings by position
\* and stop at the end of the shorter one, the call returning Ok: syms and
\* fails grow by one entry for each pair and by nothing for the lines beyond,
\* and a symbol is classed by the library only through a paired line of the
\* library's listing.
C29_PairsUpToShorter ==
    [][BatchStarted(call') =>
          /\ call'.res.ok
          /\ Len(syms') + Len(fails') = Len(syms) + Len(fails) + Shorter(call'.elf)
          /\ \A k \in (Len(fails) + 1)..Len(fails') :
                \E i \in 1..Shorter(call'.elf) :
                   fails'[k] = <<call'.elf.m.lines[i], call'.elf.d.lines[i]>>
          /\ \A s \in Range(syms') :
                Count(syms', s) > Count(syms, s) =>
                   /\ \E i \in 1..Shorter(call'.elf) :
                         NameOn(call'.elf.m.lines[i]) = s.mangled
                   /\ (s.lang = AnalyzeLibLang /\ s.mangled = s.demangled) =>
                         \E i \in 1..Shorter(call'.lib) :
                            NameOn(call'.lib.m.lines[i]) = s.mangled
      ]_vars

\* a first analyze of listings that both have a line more in the mangled
\* run: the symbol of the binary's last line is missing, and r_ad, which
\* only the library's last line names, is classed by the default
C29_Witness ==
    /\ BatchStarted(call)
    /\ call.res.ok
    /\ analyses = 1
    /\ Len(call.elf.m.lines) > Len(call.elf.d.lines)
    /\ Len(call.lib.m.lines) > Len(call.lib.d.lines)
    /\ NameOn(call.elf.m.lines[Len(call.elf.m.lines)]) = N_add
    /\ NameOn(call.lib.m.lines[Len(call.lib.m.lines)]) = N_rust_ad
    /\ \A k \in 1..Len(syms) : syms[k].mangled # N_add
    /\ \E k \in 1..Len(syms) :
          syms[k].mangled = N_rust_ad /\ syms[k].lang = AnalyzeDefaultLang
    /\ fails = <<>>

\* ------------------------------------------------------------------------
\* Properties of Symbol, continued
\* ------------------------------------------------------------------------
\* C30: related is an equivalence relation: every symbol is related to
\* itself, b is related to a whenever a is to b, and a is related to c
\* whenever a is to b and b is to c; and it does not depend on the address or
\* the language of either symbol.
C30_RelatedIsEquivalence ==
    call.op = "related" =>
        LET a == call.a
            b == call.b
        IN  /\ related(a, a)
            /\ related(b, b)
            /\ related(b, a) = call.res.val
            /\ \A c \in RelatedSymbols :
                  (call.res.val /\ related(b, c)) => related(a, c)
            /\ \A x \in {0, 33016}, l \in SymbolLangs :
                  /\ related([a EXCEPT !.addr = x, !.lang = l], b) = call.res.val
                  /\ related(a, [b EXCEPT !.addr = x, !.lang = l]) = call.res.val

\* two related symbols of different address and language, with a third
\* symbol, different from both, that the second is related to
C30_Witness ==
    /\ call.op = "related"
    /\ call.res.val = TRUE
    /\ call.a.addr # call.b.addr
    /\ call.a.lang # call.b.lang
    /\ \E c \in RelatedSymbols : c # call.a /\ c # call.b /\ related(call.b, c)

====
